---- MODULE Spec2Model ----
(***************************************************************************)
(* Model of src/ekf/ekf_ran.py: the drone Extended Kalman Filter           *)
(* (ExtendedKalmanFilter.predict / update), its process and measurement    *)
(* models (f, F_jacobian, h, H_jacobian), the pose parser parse_pose and   *)
(* the driver ekf_step.                                                    *)
(*                                                                         *)
(* Numbers.  The code computes with numpy float64.  A finite number is     *)
(* modelled by the exact rational <<n, d>> (d > 0, lowest terms) and the   *)
(* non-finite value NaN by <<0, 0>>; every operation that reads a NaN      *)
(* returns NaN, as in IEEE-754.  Rounding is not modelled: the model       *)
(* states what the filter equations compute in exact arithmetic.           *)
(*                                                                         *)
(* Arrays.  A numpy column vector of shape (n, 1) is the sequence of its   *)
(* n entries; a matrix is the sequence of its rows.  numpy broadcasting    *)
(* of two column vectors and the exceptions the code can raise             *)
(* (ValueError from broadcasting, LinAlgError from numpy.linalg.inv) are   *)
(* modelled; an operation that raises leaves the fields assigned before    *)
(* the raising statement changed and the others untouched.                 *)
(***************************************************************************)
EXTENDS Integers, Sequences, FiniteSets, TLC

VARIABLES x, P, Q, R, calls, last

vars == <<x, P, Q, R, calls, last>>

(* ------------------------------ bounds -------------------------------- *)

\* Number of calls made on one filter instance.
MaxCalls == 3

\* Number of rows the driver loop feeds to ekf_step.
MaxSteps == 2

(* ----------------------------- numbers -------------------------------- *)

Abs(a) == IF a < 0 THEN -a ELSE a

Min(a, b) == IF a < b THEN a ELSE b

RECURSIVE Gcd(_, _)
Gcd(a, b) == IF b = 0 THEN a ELSE Gcd(b, a % b)

Zero == <<0, 1>>
One == <<1, 1>>
NaN == <<0, 0>>

IsNaN(a) == a[2] = 0

Rat(n, d) ==
    LET g == Gcd(Abs(n), Abs(d))
    IN IF d < 0 THEN <<-(n \div g), -(d \div g)>> ELSE <<n \div g, d \div g>>

RAdd(a, b) ==
    IF IsNaN(a) \/ IsNaN(b) THEN NaN
    ELSE IF a[1] = 0 THEN b
    ELSE IF b[1] = 0 THEN a
    ELSE LET g == Gcd(a[2], b[2])
         IN Rat(a[1] * (b[2] \div g) + b[1] * (a[2] \div g), (a[2] \div g) * b[2])

RNeg(a) == <<-a[1], a[2]>>

RSub(a, b) == RAdd(a, RNeg(b))

RMul(a, b) ==
    IF IsNaN(a) \/ IsNaN(b) THEN NaN
    ELSE IF a[1] = 0 \/ b[1] = 0 THEN Zero
    ELSE LET g1 == Gcd(Abs(a[1]), b[2])
             g2 == Gcd(Abs(b[1]), a[2])
         IN <<(a[1] \div g1) * (b[1] \div g2), (a[2] \div g2) * (b[2] \div g1)>>

\* a / b for a finite b # 0.
RDiv(a, b) == RMul(a, IF b[1] < 0 THEN <<-b[2], -b[1]>> ELSE <<b[2], b[1]>>)

RAbs(a) == <<Abs(a[1]), a[2]>>

\* Comparisons of finite numbers.
RLt(a, b) == RSub(a, b)[1] < 0
RLe(a, b) == RSub(a, b)[1] <= 0

(* ------------------------------ arrays -------------------------------- *)

\* The sequence <<Op(1), ..., Op(n)>>, evaluated once.
MkSeq(n, Op(_)) == [i \in 1..n |-> Op(i)] \o <<>>

Rows(A) == Len(A)
Cols(A) == Len(A[1])

\* Python's a[lo:hi] on a sequence (0-based, hi exclusive, clipped).
Slice(s, lo, hi) == SubSeq(s, lo + 1, Min(hi, Len(s)))

\* numpy's A @ B.
MatMul(A, B) ==
    MkSeq(Rows(A), LAMBDA i : MkSeq(Cols(B), LAMBDA j :
        LET RECURSIVE Dot(_)
            Dot(k) == IF k = 0 THEN Zero
                      ELSE RAdd(Dot(k - 1), RMul(A[i][k], B[k][j]))
        IN Dot(Rows(B))))

MatAdd(A, B) ==
    MkSeq(Rows(A), LAMBDA i : MkSeq(Cols(A), LAMBDA j : RAdd(A[i][j], B[i][j])))

MatSub(A, B) ==
    MkSeq(Rows(A), LAMBDA i : MkSeq(Cols(A), LAMBDA j : RSub(A[i][j], B[i][j])))

\* numpy's A.T.
Transpose(A) ==
    MkSeq(Cols(A), LAMBDA j : MkSeq(Rows(A), LAMBDA i : A[i][j]))

\* numpy's np.eye(n) * s.
Eye(n, s) ==
    MkSeq(n, LAMBDA i : MkSeq(n, LAMBDA j : IF i = j THEN s ELSE Zero))

\* A column vector as an (n, 1) matrix and back.
ColMat(v) == MkSeq(Len(v), LAMBDA i : <<v[i]>>)
MatCol(M) == MkSeq(Rows(M), LAMBDA i : M[i][1])

\* numpy's v * dt for a column vector v and a scalar dt.
Scale(v, dt) == MkSeq(Len(v), LAMBDA i : RMul(v[i], dt))

\* numpy broadcasting of two column vectors of shapes (m, 1) and (k, 1):
\* the result has max(m, k) rows when m = k or one of them is 1, and the
\* operation raises ValueError otherwise.
CanBroadcast(a, b) == Len(a) = Len(b) \/ Len(a) = 1 \/ Len(b) = 1

BLen(a, b) == IF Len(a) = 1 THEN Len(b) ELSE Len(a)

BAdd(a, b) ==
    MkSeq(BLen(a, b), LAMBDA i :
        RAdd(a[IF Len(a) = 1 THEN 1 ELSE i], b[IF Len(b) = 1 THEN 1 ELSE i]))

BSub(a, b) ==
    MkSeq(BLen(a, b), LAMBDA i :
        RSub(a[IF Len(a) = 1 THEN 1 ELSE i], b[IF Len(b) = 1 THEN 1 ELSE i]))

RECURSIVE SumTo(_, _)
SumTo(s, n) == IF n = 0 THEN Zero ELSE RAdd(SumTo(s, n - 1), s[n])

Trace(M) == SumTo(MkSeq(Rows(M), LAMBDA i : M[i][i]), Rows(M))

(* ------------------- numpy.linalg.inv (LAPACK gesv) -------------------- *)

\* Elimination with partial pivoting on the augmented matrix [S | I].
\* LAPACK raises (numpy: LinAlgError "Singular matrix") exactly when a
\* pivot column holds no non-zero entry.

\* First row r in c..n whose |A[r][c]| is largest (LAPACK's idamax).
RECURSIVE PivotRow(_, _, _, _)
PivotRow(A, c, r, best) ==
    IF r > Rows(A) THEN best
    ELSE PivotRow(A, c, r + 1,
                  IF RLt(RAbs(A[best][c]), RAbs(A[r][c])) THEN r ELSE best)

SwapRows(A, i, j) ==
    MkSeq(Rows(A), LAMBDA r : IF r = i THEN A[j] ELSE IF r = j THEN A[i] ELSE A[r])

\* Row c scaled to a unit pivot (prow) is subtracted from the other rows.
EliminateWith(A, c, prow) ==
    MkSeq(Rows(A), LAMBDA r :
        IF r = c THEN prow
        ELSE MkSeq(Cols(A), LAMBDA j : RSub(A[r][j], RMul(A[r][c], prow[j]))))

EliminateCol(A, c) ==
    EliminateWith(A, c, MkSeq(Cols(A), LAMBDA j : RDiv(A[c][j], A[c][c])))

RECURSIVE GaussJordan(_, _)
GaussJordanAt(A, c, p) ==
    IF A[p][c][1] = 0 THEN [raised |-> "LinAlgError", val |-> A]
    ELSE GaussJordan(EliminateCol(SwapRows(A, c, p), c), c + 1)

GaussJordan(A, c) ==
    IF c > Rows(A) THEN [raised |-> "none", val |-> A]
    ELSE GaussJordanAt(A, c, PivotRow(A, c, c, c))

Augment(S) ==
    MkSeq(Rows(S), LAMBDA i : S[i] \o MkSeq(Rows(S), LAMBDA j : IF i = j THEN One ELSE Zero))

RightHalf(g, n) ==
    [raised |-> g.raised,
     val |-> MkSeq(n, LAMBDA i : SubSeq(g.val[i], n + 1, 2 * n))]

linalg_inv(S) == RightHalf(GaussJordan(Augment(S), 1), Rows(S))

(* --------------------------- the EKF models ---------------------------- *)

state_dim == 12
meas_dim == 3

\* Variant of f: the position is integrated with the updated velocity.
f_new_velocity(xs, u, dt) ==
    LET p == Slice(xs, 0, 3)
        v == Slice(xs, 3, 6)
        e == Slice(xs, 6, 9)
        w == Slice(xs, 9, 12)
        a == Slice(u, 0, 3)
        omega_meas == Slice(u, 3, 6)
    IN IF ~CanBroadcast(v, Scale(a, dt)) \/ ~CanBroadcast(e, Scale(omega_meas, dt))
       THEN [raised |-> "ValueError", val |-> xs]
       ELSE LET v_new == BAdd(v, Scale(a, dt))
                p_new == BAdd(p, Scale(v_new, dt))
                e_new == BAdd(e, Scale(omega_meas, dt))
                w_new == w
            IN [raised |-> "none", val |-> p_new \o v_new \o e_new \o w_new]

\* Variant of f: the gyro measurement is stored in the angular-rate block.
f_store_gyro(xs, u, dt) ==
    LET p == Slice(xs, 0, 3)
        v == Slice(xs, 3, 6)
        e == Slice(xs, 6, 9)
        a == Slice(u, 0, 3)
        omega_meas == Slice(u, 3, 6)
    IN IF ~CanBroadcast(p, Scale(v, dt)) \/ ~CanBroadcast(v, Scale(a, dt))
          \/ ~CanBroadcast(e, Scale(omega_meas, dt))
       THEN [raised |-> "ValueError", val |-> xs]
       ELSE LET p_new == BAdd(p, Scale(v, dt))
                v_new == BAdd(v, Scale(a, dt))
                e_new == BAdd(e, Scale(omega_meas, dt))
                w_new == omega_meas
            IN [raised |-> "none", val |-> p_new \o v_new \o e_new \o w_new]

\* f(x, u, dt): the process model.
f(xs, u, dt) ==
    LET p == Slice(xs, 0, 3)
        v == Slice(xs, 3, 6)
        e == Slice(xs, 6, 9)
        w == Slice(xs, 9, 12)
        a == Slice(u, 0, 3)
        omega_meas == Slice(u, 3, 6)
    IN IF ~CanBroadcast(p, Scale(v, dt)) \/ ~CanBroadcast(v, Scale(a, dt))
          \/ ~CanBroadcast(e, Scale(omega_meas, dt))
       THEN [raised |-> "ValueError", val |-> xs]
       ELSE LET p_new == BAdd(p, Scale(v, dt))
                v_new == BAdd(v, Scale(a, dt))
                e_new == BAdd(e, Scale(omega_meas, dt))
                w_new == w
            IN [raised |-> "none", val |-> p_new \o v_new \o e_new \o w_new]

\* Variant of F_jacobian: the dt * I3 block is left out.
F_jacobian_identity(dt) == Eye(12, One)

\* F_jacobian(dt): identity with dt * I3 in the position-velocity block.
F_jacobian(dt) ==
    MkSeq(12, LAMBDA i : MkSeq(12, LAMBDA j :
        IF i = j THEN One
        ELSE IF i <= 3 /\ j = i + 3 THEN dt
        ELSE Zero))

\* h(x): the position block.
h(xs) == Slice(xs, 0, 3)

\* H_jacobian(): [I3 | 0].
H_jacobian ==
    MkSeq(3, LAMBDA i : MkSeq(12, LAMBDA j : IF i = j THEN One ELSE Zero))

\* ExtendedKalmanFilter.__init__
InitX == MkSeq(state_dim, LAMBDA i : Zero)
InitP == Eye(state_dim, One)
InitQ == Eye(state_dim, Rat(5, 100))
InitR == Eye(meas_dim, Rat(1, 10))

\* ExtendedKalmanFilter.predict: the fields after the call and what it raised.
\* Variant of predict: F @ P @ F + Q, the transpose left out.
predict_no_transpose(xs, Ps, Qs, fx, F) ==
    IF fx.raised # "none" THEN [raised |-> fx.raised, x |-> xs, P |-> Ps]
    ELSE [raised |-> "none",
          x |-> fx.val,
          P |-> MatAdd(MatMul(MatMul(F, Ps), F), Qs)]

\* (fx is the outcome of f(self.x, u, dt), F the Jacobian F_jacobian(dt).)
predict_from(xs, Ps, Qs, fx, F) ==
    IF fx.raised # "none" THEN [raised |-> fx.raised, x |-> xs, P |-> Ps]
    ELSE [raised |-> "none",
          x |-> fx.val,
          P |-> MatAdd(MatMul(MatMul(F, Ps), Transpose(F)), Qs)]

predict(xs, Ps, Qs, u, dt) == predict_from(xs, Ps, Qs, f(xs, u, dt), F_jacobian(dt))

\* Variant of S: the measurement noise R is left out.
InnovationCov_no_R(Ps, Rs) ==
    MatMul(MatMul(H_jacobian, Ps), Transpose(H_jacobian))

\* S = H @ P @ H.T + R, the innovation covariance of update.
InnovationCov(Ps, Rs) ==
    MatAdd(MatMul(MatMul(H_jacobian, Ps), Transpose(H_jacobian)), Rs)

\* ExtendedKalmanFilter.update: the fields after the call and what it raised.
\* Variant of update's assignments: the correction K @ y is subtracted.
update_assign_minus(xs, Ps, H, y, K) ==
    [raised |-> "none",
     x |-> BSub(xs, MatCol(MatMul(K, ColMat(y)))),
     P |-> MatMul(MatSub(Eye(Len(xs), One), MatMul(K, H)), Ps)]

\* Variant of update's assignments: P <- (I + K H) P.
update_assign_plus(xs, Ps, H, y, K) ==
    [raised |-> "none",
     x |-> BAdd(xs, MatCol(MatMul(K, ColMat(y)))),
     P |-> MatMul(MatAdd(Eye(Len(xs), One), MatMul(K, H)), Ps)]

\* (the assignments to self.x and self.P, given the innovation y and the gain K.)
update_assign(xs, Ps, H, y, K) ==
    [raised |-> "none",
     x |-> BAdd(xs, MatCol(MatMul(K, ColMat(y)))),
     P |-> MatMul(MatSub(Eye(Len(xs), One), MatMul(K, H)), Ps)]

\* Variant of the gain: the failure of the inversion is swallowed and the
\* update goes on with what the elimination left.
update_gain_unchecked(xs, Ps, H, y, Sinv) ==
    [raised |-> "none",
     x |-> BAdd(xs, MatCol(MatMul(MatMul(MatMul(Ps, Transpose(H)), Sinv.val), ColMat(y)))),
     P |-> MatMul(MatSub(Eye(Len(xs), One),
                         MatMul(MatMul(MatMul(Ps, Transpose(H)), Sinv.val), H)), Ps)]

\* (the Kalman gain, given the outcome Sinv of np.linalg.inv(S).)
update_gain(xs, Ps, H, y, Sinv) ==
    IF Sinv.raised # "none" THEN [raised |-> Sinv.raised, x |-> xs, P |-> Ps]
    ELSE update_assign(xs, Ps, H, y, MatMul(MatMul(Ps, Transpose(H)), Sinv.val))

update(xs, Ps, Rs, z) ==
    IF ~CanBroadcast(z, h(xs)) THEN [raised |-> "ValueError", x |-> xs, P |-> Ps]
    ELSE update_gain(xs, Ps, H_jacobian, BSub(z, h(xs)),
                     linalg_inv(InnovationCov(Ps, Rs)))

(* ----------------------------- parse_pose ----------------------------- *)

\* A Python str is the sequence of its characters; the characters the model
\* draws from are "(", ")", ",", " ", "-", "x" and the digits.

Digits == <<"0", "1", "2", "3", "4", "5", "6", "7", "8", "9">>

IsDigit(c) == \E d \in 1..10 : Digits[d] = c

DigitVal(c) == (CHOOSE d \in 1..10 : Digits[d] = c) - 1

\* str.strip()
RECURSIVE LStrip(_)
LStrip(s) == IF s # <<>> /\ s[1] = " " THEN LStrip(Tail(s)) ELSE s

RECURSIVE RStrip(_)
RStrip(s) == IF s # <<>> /\ s[Len(s)] = " " THEN RStrip(SubSeq(s, 1, Len(s) - 1)) ELSE s

Strip(s) == RStrip(LStrip(s))

\* str.split(sep): the pieces between the separators, empty ones included.
RECURSIVE SplitOn(_, _)
SplitOn(s, sep) ==
    IF \A i \in 1..Len(s) : s[i] # sep THEN <<s>>
    ELSE LET i == CHOOSE k \in 1..Len(s) : s[k] = sep /\ \A m \in 1..(k - 1) : s[m] # sep
         IN <<SubSeq(s, 1, i - 1)>> \o SplitOn(SubSeq(s, i + 1, Len(s)), sep)

\* str.split(): the maximal runs of non-whitespace characters.
SplitWs(s) == SelectSeq(SplitOn(s, " "), LAMBDA t : t # <<>>)

\* str.replace(c, '')
Remove(s, c) == SelectSeq(s, LAMBDA ch : ch # c)

RECURSIVE DecimalVal(_)
DecimalVal(s) == IF s = <<>> THEN 0
                 ELSE 10 * DecimalVal(SubSeq(s, 1, Len(s) - 1)) + DigitVal(s[Len(s)])

\* float(s) on this alphabet: surrounding whitespace is ignored and an
\* optionally signed run of digits is a number; anything else raises ValueError.
float(s) ==
    LET t == Strip(s)
        neg == t # <<>> /\ t[1] = "-"
        ds == IF neg THEN Tail(t) ELSE t
    IN IF ds = <<>> \/ \E i \in 1..Len(ds) : ~IsDigit(ds[i])
       THEN [raised |-> "ValueError", val |-> NaN]
       ELSE [raised |-> "none",
             val |-> Rat(IF neg THEN -DecimalVal(ds) ELSE DecimalVal(ds), 1)]

\* np.zeros((3, 1))
Zeros3 == MkSeq(3, LAMBDA i : Zero)

\* [float(t) for t in parts], or the exception the first failing float raises.
Floats(parts) ==
    IF \E i \in 1..Len(parts) : float(parts[i]).raised # "none"
    THEN [raised |-> "ValueError", val |-> <<>>]
    ELSE [raised |-> "none", val |-> MkSeq(Len(parts), LAMBDA i : float(parts[i]).val)]

\* parse_pose(pose_data).  A pose is [str |-> BOOLEAN, s |-> characters]; a
\* value that is not a str (a missing cell) has str = FALSE.
parse_pose(pose_data) ==
    IF ~pose_data.str THEN Zeros3
    ELSE LET pd == Strip(pose_data.s)
         IN IF pd # <<>> /\ pd[1] = "(" /\ pd[Len(pd)] = ")"
            THEN LET content == SubSeq(pd, 2, Len(pd) - 1)
                     split == SplitOn(content, ",")
                     parts == MkSeq(Len(split), LAMBDA i : Strip(split[i]))
                 IN IF Len(parts) < 3 THEN Zeros3            \* IndexError, caught
                    ELSE LET pos == Floats(SubSeq(parts, 1, 3))
                         IN IF pos.raised # "none" THEN Zeros3   \* ValueError, caught
                            ELSE pos.val
            ELSE LET byComma == SplitOn(Remove(Remove(pd, "("), ")"), ",")
                     parts == IF Len(byComma) < 3 THEN SplitWs(pd) ELSE byComma
                     pos == Floats(Slice(parts, 0, 3))
                 IN IF pos.raised # "none" THEN Zeros3       \* ValueError, caught
                    ELSE pos.val

(* ------------------------------ ekf_step ------------------------------- *)

\* ekf_step(ekf, row, dt, imu_measurement): the filter fields after the call,
\* what it raised, the value it returned (<<>> when it raised), and the
\* filter methods it called, in order, with the observation handed to update.
\* (the return, given the outcome up of ekf.update(z).)
step_return(up, z) ==
    [raised |-> up.raised, x |-> up.x, P |-> up.P,
     ret |-> IF up.raised = "none" THEN up.x ELSE <<>>,
     inner |-> << <<"predict", <<>> >>, <<"update", z>> >>]

\* (the update call, given the outcome pr of ekf.predict and the parsed z.)
step_update(pr, Rs, z) == step_return(update(pr.x, pr.P, Rs, z), z)

\* (what follows ekf.predict, given its outcome pr.)
step_parse(pr, Rs, pose) ==
    IF pr.raised # "none"
    THEN [raised |-> pr.raised, x |-> pr.x, P |-> pr.P, ret |-> <<>>,
          inner |-> << <<"predict", <<>> >> >>]
    ELSE step_update(pr, Rs, parse_pose(pose))

ekf_step(xs, Ps, Qs, Rs, pose, dt, imu_measurement) ==
    step_parse(predict(xs, Ps, Qs, imu_measurement, dt), Rs, pose)

(* ---------------------------- the inputs ------------------------------- *)

Vec(ints) == MkSeq(Len(ints), LAMBDA i : Rat(ints[i], 1))

\* Control inputs u (6 x 1) and time steps dt >= 0 the driver supplies.
USet == {Vec(<<1, 0, 0, 0, 0, 0>>), Vec(<<2, 1, 0, 1, 0, 3>>)}
DtSet == {Zero, One, Rat(1, 2)}

\* Position observations z (3 x 1).
ZSet == {Vec(<<1, 0, 0>>), Vec(<<0, 2, -1>>)}

\* Arguments a caller can pass that the documented contract excludes:
\* vectors of another length and vectors holding a NaN.
UAny == USet \cup {Vec(<<1, 0, 0, 0, 0, 0, 4>>),
                   Vec(<<1, 0, 0, 2>>),
                   Vec(<<1, 0, 0, 0, 0>>),
                   <<NaN, Zero, Zero, Zero, Zero, Zero>>}
ZAny == ZSet \cup {Vec(<<1, 2>>), Vec(<<3>>), <<One, NaN, Zero>>}
DtAny == {Rat(1, 2)}

\* The 'poses' cell of a row.
Str(chars) == [str |-> TRUE, s |-> chars]
NotAStr == [str |-> FALSE, s |-> <<>>]

PoseSet == {Str(<<"(", "1", ",", " ", "2", ",", "0", ",", "x", ")">>),
            Str(<<" ", "2", ",", "-", "1", ",", "0">>),
            Str(<<"1", " ", "0", " ", "2", " ", "7">>),
            NotAStr,
            Str(<<"(", "1", ",", "x", ",", "0", ")">>),
            Str(<<"(", "1", ",", "2", ")">>),
            Str(<<"1", " ", "2">>),
            Str(<<"2">>),
            Str(<<>>)}
StepDtSet == {One}

\* Measurement-noise scales the filter can be configured with.
RScaleSet == {Zero}

(* --------------------------- the state machine ------------------------- *)

NoPose == NotAStr

NoCall == [op |-> "init", raised |-> "none", u |-> <<>>, dt |-> Zero, z |-> <<>>,
           pose |-> NoPose, ret |-> <<>>, inner |-> <<>>,
           xPre |-> InitX, PPre |-> InitP, RPre |-> InitR]

Init ==
    /\ x = InitX
    /\ P = InitP
    /\ Q = InitQ
    /\ R = InitR
    /\ calls = <<>>
    /\ last = NoCall

DoPredict(u, dt) ==
    /\ Len(calls) < MaxCalls
    /\ \E r \in {predict(x, P, Q, u, dt)} :
       /\ x' = r.x
       /\ P' = r.P
       /\ calls' = Append(calls, [op |-> "predict", u |-> u, dt |-> dt, z |-> <<>>])
       /\ last' = [op |-> "predict", raised |-> r.raised, u |-> u, dt |-> dt, z |-> <<>>,
                   pose |-> NoPose, ret |-> <<>>, inner |-> <<>>,
                   xPre |-> x, PPre |-> P, RPre |-> R]
       /\ UNCHANGED <<Q, R>>

DoUpdate(z) ==
    /\ Len(calls) < MaxCalls
    /\ \E r \in {update(x, P, R, z)} :
       /\ x' = r.x
       /\ P' = r.P
       /\ calls' = Append(calls, [op |-> "update", u |-> <<>>, dt |-> Zero, z |-> z])
       /\ last' = [op |-> "update", raised |-> r.raised, u |-> <<>>, dt |-> Zero, z |-> z,
                   pose |-> NoPose, ret |-> <<>>, inner |-> <<>>,
                   xPre |-> x, PPre |-> P, RPre |-> R]
       /\ UNCHANGED <<Q, R>>

DoEkfStep(pose, dt, imu) ==
    /\ Len(calls) < MaxSteps
    /\ \E r \in {ekf_step(x, P, Q, R, pose, dt, imu)} :
       /\ x' = r.x
       /\ P' = r.P
       /\ calls' = Append(calls, [op |-> "ekf_step", u |-> imu, dt |-> dt, z |-> <<>>])
       /\ last' = [op |-> "ekf_step", raised |-> r.raised, u |-> imu, dt |-> dt, z |-> <<>>,
                   pose |-> pose, ret |-> r.ret, inner |-> r.inner,
                   xPre |-> x, PPre |-> P, RPre |-> R]
       /\ UNCHANGED <<Q, R>>

\* The driver's calls with arguments that meet the documented contract.
Predict == \E u \in USet, dt \in DtSet : DoPredict(u, dt)

Update == \E z \in ZSet : DoUpdate(z)

Next == Predict \/ Update

Spec == Init /\ [][Next]_vars

\* Calls with any argument a caller can pass.
PredictAny == \E u \in UAny, dt \in DtAny : DoPredict(u, dt)

UpdateAny == \E z \in ZAny : DoUpdate(z)

NextAny == PredictAny \/ UpdateAny

SpecAny == Init /\ [][NextAny]_vars

\* The driver loop: one ekf_step per row.
EkfStep == \E pose \in PoseSet, dt \in StepDtSet, imu \in USet : DoEkfStep(pose, dt, imu)

NextStep == EkfStep

SpecStep == Init /\ [][NextStep]_vars

\* A filter whose measurement noise R is set right after construction
\* (ekf.R is a plain attribute, "tunable" in __init__).
SetR ==
    /\ calls = <<>>
    /\ \E r \in RScaleSet : R' = Eye(meas_dim, r)
    /\ R' # R
    /\ UNCHANGED <<x, P, Q, calls, last>>

NextTune == SetR \/ Predict \/ Update

SpecTune == Init /\ [][NextTune]_vars

(* ------------------------ notions the claims use ----------------------- *)

Called(op) == last.op = op
Returned(op) == last.op = op /\ last.raised = "none"

HasNaN(v) == \E i \in 1..Len(v) : IsNaN(v[i])

\* An argument outside the contract of predict(u, dt) / update(z).
InvalidU(u) == Len(u) # 6 \/ HasNaN(u)
InvalidZ(z) == Len(z) # 3 \/ HasNaN(z)

\* Invertibility of a 3 x 3 matrix, by its determinant.  Every row is first
\* scaled to integers (that leaves the determinant's being zero unchanged).
Lcm(a, b) == (a \div Gcd(a, b)) * b

RECURSIVE DenLcm(_, _)
DenLcm(row, n) == IF n = 0 THEN 1 ELSE Lcm(DenLcm(row, n - 1), row[n][2])

RECURSIVE NumGcd(_, _)
NumGcd(row, n) == IF n = 0 THEN 0 ELSE Gcd(NumGcd(row, n - 1), Abs(row[n][1]))

Scaled(row, l) == [i \in 1..Len(row) |-> RMul(row[i], Rat(l, 1))]

Reduced(row, g) == [i \in 1..Len(row) |-> IF g = 0 THEN 0 ELSE row[i][1] \div g]

IntRow(row) ==
    Reduced(Scaled(row, DenLcm(row, Len(row))),
            NumGcd(Scaled(row, DenLcm(row, Len(row))), Len(row)))

Det3(M) ==
    LET A == [i \in 1..3 |-> IntRow(M[i])]
    IN   A[1][1] * (A[2][2] * A[3][3] - A[2][3] * A[3][2])
       - A[1][2] * (A[2][1] * A[3][3] - A[2][3] * A[3][1])
       + A[1][3] * (A[2][1] * A[3][2] - A[2][2] * A[3][1])

\* S = H P H^T + R written out: the position block of P plus R.
SOf(Pm, Rm) == [i \in 1..3 |-> [j \in 1..3 |-> RAdd(Pm[i][j], Rm[i][j])]]

\* Positive (semi)definiteness of a symmetric matrix by symmetric
\* elimination: every pivot of the successive Schur complements is >= 0
\* (> 0 when strict), and a zero pivot has a zero row.
RECURSIVE PivotsOk(_, _, _)
PivotsOk(M, k, strict) ==
    IF k > Len(M) THEN TRUE
    ELSE IF M[k][k][1] < 0 THEN FALSE
    ELSE IF M[k][k][1] = 0
         THEN /\ ~strict
              /\ \A j \in (k + 1)..Len(M) : M[k][j][1] = 0
              /\ PivotsOk(M, k + 1, strict)
    ELSE PivotsOk(MkSeq(Len(M), LAMBDA i : MkSeq(Len(M), LAMBDA j :
                      IF i <= k \/ j <= k THEN M[i][j]
                      ELSE RSub(M[i][j], RDiv(RMul(M[i][k], M[k][j]), M[k][k])))),
                  k + 1, strict)

IsSymmetric(M) ==
    \A i \in 1..Len(M) : \A j \in 1..Len(M) : M[i][j] = M[j][i]

IsPSD(M) == IsSymmetric(M) /\ PivotsOk(M, 1, FALSE)
IsPD(M) == IsSymmetric(M) /\ PivotsOk(M, 1, TRUE)

\* v lies strictly between a and b.
StrictlyBetween(v, a, b) ==
    \/ RLt(a, v) /\ RLt(v, b)
    \/ RLt(b, v) /\ RLt(v, a)

\* All calls so far are predict calls with one u = [a,0,0,0,0,0] and one dt.
ConstantAccelRun ==
    /\ calls # <<>>
    /\ \A i \in 1..Len(calls) :
          /\ calls[i].op = "predict"
          /\ calls[i].u = calls[1].u
          /\ calls[i].dt = calls[1].dt
    /\ Len(calls[1].u) = 6
    /\ \A k \in 2..6 : calls[1].u[k] = Zero

RunA == calls[1].u[1]
RunDt == calls[1].dt
RunN == Len(calls)

\* The running sum of omega * dt over the predict calls made so far.
RECURSIVE EulerSum(_, _)
EulerSum(n, k) ==
    IF n = 0 THEN Zero
    ELSE RAdd(EulerSum(n - 1, k),
              IF calls[n].op = "predict" THEN RMul(calls[n].u[3 + k], calls[n].dt)
              ELSE Zero)

\* The fields of the 'poses' text: the text inside one pair of enclosing
\* parentheses if there is one, split at commas, or at whitespace when it
\* holds no comma.
PoseFields(chars) ==
    LET pd == Strip(chars)
        core == IF pd # <<>> /\ pd[1] = "(" /\ pd[Len(pd)] = ")"
                THEN SubSeq(pd, 2, Len(pd) - 1) ELSE pd
    IN IF \E i \in 1..Len(core) : core[i] = ","
       THEN SplitOn(core, ",") ELSE SplitWs(core)

\* A pose cell that carries a position: a str with at least three fields,
\* the first three of them numbers.
WellFormedPose(pose) ==
    /\ pose.str
    /\ Len(PoseFields(pose.s)) >= 3
    /\ \A i \in 1..3 : float(PoseFields(pose.s)[i]).raised = "none"

(* ------------------------------ the claims ----------------------------- *)

\* C1: a predict(u, dt) whose u is not of length 6 or holds a non-finite
\* value, and an update(z) whose z is not of length 3 or holds a non-finite
\* value, is reported to the caller and leaves x and P as they were.
C1_InvalidInputAtomic ==
    (\/ Called("predict") /\ InvalidU(last.u)
     \/ Called("update") /\ InvalidZ(last.z))
    => /\ last.raised # "none"
       /\ x = last.xPre
       /\ P = last.PPre

\* C2: an update(z) called while S = H P H^T + R is not invertible fails
\* with an error and leaves both x and P as they were before the call.
C2_SingularUpdateFails ==
    (Called("update") /\ Det3(SOf(last.PPre, last.RPre)) = 0)
    => /\ last.raised = "LinAlgError"
       /\ x = last.xPre
       /\ P = last.PPre

C2_Witness ==
    /\ Called("update")
    /\ Det3(SOf(last.PPre, last.RPre)) = 0
    /\ last.raised = "LinAlgError"
    /\ Len(calls) >= 2

\* C3 as stated: after n predict calls with u = [a,0,0,0,0,0] and dt = D on a
\* fresh filter, v_x = a n D and p_x = a D^2 n (n + 1) / 2.
C3_AsStated ==
    ConstantAccelRun
    => /\ x[4] = RMul(RunA, RMul(Rat(RunN, 1), RunDt))
       /\ x[1] = RMul(RMul(RunA, RMul(RunDt, RunDt)), Rat(RunN * (RunN + 1), 2))

\* C3 amended: after n predict calls with u = [a,0,0,0,0,0] and dt = D on a
\* fresh filter, v_x = a n D and p_x = a D^2 n (n - 1) / 2 (each call
\* integrates the velocity held before it); the fresh filter has x = 0.
C3_PredictOnly ==
    /\ calls = <<>> => x = InitX
    /\ ConstantAccelRun
       => /\ x[4] = RMul(RunA, RMul(Rat(RunN, 1), RunDt))
          /\ x[1] = RMul(RMul(RunA, RMul(RunDt, RunDt)), Rat(RunN * (RunN - 1), 2))

C3_Witness ==
    /\ ConstantAccelRun
    /\ RunN >= 3
    /\ RunDt = Rat(1, 2)
    /\ x[1] = Rat(3, 4)

\* C4: predict(u = [1,0,0,0,0,0], dt = 1) on a fresh filter yields
\* x = [0,0,0,1,0,...,0]; and every update(z) leaves each position component
\* that differed from z_i strictly between its value before the update and
\* z_i.
C4_UpdateShrinksGap ==
    /\ (/\ Len(calls) = 1
        /\ calls[1] = [op |-> "predict", u |-> Vec(<<1, 0, 0, 0, 0, 0>>),
                       dt |-> One, z |-> <<>>])
       => x = Vec(<<0, 0, 0, 1, 0, 0, 0, 0, 0, 0, 0, 0>>)
    /\ Returned("update")
       => \A i \in 1..3 :
             last.z[i] # last.xPre[i] => StrictlyBetween(x[i], last.xPre[i], last.z[i])

C4_Witness ==
    /\ Len(calls) = 2
    /\ calls[1] = [op |-> "predict", u |-> Vec(<<1, 0, 0, 0, 0, 0>>),
                   dt |-> One, z |-> <<>>]
    /\ Returned("update")
    /\ last.z = Vec(<<1, 0, 0>>)
    /\ last.xPre[1] = Zero
    /\ StrictlyBetween(x[1], Zero, One)

\* C5: a predict that follows a predict does not lower trace(P); every
\* diagonal entry of P grows by Q's diagonal entry, 0.05, and the variance of
\* position i grows in addition by 2 dt cov(p_i, v_i) + dt^2 var(v_i).
C5_CovarianceGrowth ==
    (/\ Returned("predict")
     /\ Len(calls) >= 2
     /\ calls[Len(calls) - 1].op = "predict")
    => /\ RLe(Trace(last.PPre), Trace(P))
       /\ \A i \in 1..12 :
             /\ Q[i][i] = Rat(5, 100)
             /\ P[i][i] =
                  RAdd(RAdd(last.PPre[i][i], Q[i][i]),
                       IF i <= 3
                       THEN RAdd(RMul(Rat(2, 1), RMul(last.dt, last.PPre[i][i + 3])),
                                 RMul(RMul(last.dt, last.dt), last.PPre[i + 3][i + 3]))
                       ELSE Zero)

C5_Witness ==
    /\ Returned("predict")
    /\ Len(calls) >= 2
    /\ calls[Len(calls) - 1].op = "predict"
    /\ last.dt = Rat(1, 2)
    /\ last.PPre[1][4] # Zero
    /\ RLt(Trace(last.PPre), Trace(P))

\* C6: a successful update(z) leaves trace(P) no larger than it was
\* immediately before that update.
C6_UpdateReducesTrace ==
    Returned("update") => RLe(Trace(P), Trace(last.PPre))

C6_Witness ==
    /\ Returned("update")
    /\ Len(calls) >= 3
    /\ last.PPre[1][4] # Zero
    /\ RLt(Trace(P), Trace(last.PPre))

C8_StepOrderAndDegradation ==
    Called("ekf_step")
    => /\ Len(last.inner) = 2
       /\ last.inner[1][1] = "predict"
       /\ last.inner[2][1] = "update"
       /\ last.raised = "none"
       /\ last.ret = x
       /\ ~WellFormedPose(last.pose) => last.inner[2][2] = Zeros3

\* C9: S = H P H^T + R is positive-definite with every diagonal entry >= 0.1
\* in every reachable state, and no update fails with a singular matrix.
C9_InnovationCovInvertible ==
    /\ \A i \in 1..3 : RLe(Rat(1, 10), SOf(P, R)[i][i])
    /\ IsPD(SOf(P, R))
    /\ Det3(SOf(P, R)) # 0
    /\ last.raised # "LinAlgError"

C9_Witness ==
    /\ Returned("update")
    /\ Len(calls) >= 3
    /\ calls[Len(calls) - 1].op = "update"
    /\ RLt(SOf(P, R)[1][1], Rat(2, 10))

\* C10: the covariances between components 0-5 and components 6-11 are
\* zero; update leaves x[6:12] unchanged; x[9:12] stays zero; x[6:9] is the
\* running sum of omega * dt over the predict calls made so far.
C10_AttitudeDecoupled ==
    /\ \A i \in 1..6 : \A j \in 7..12 : P[i][j] = Zero /\ P[j][i] = Zero
    /\ Called("update") => \A i \in 7..12 : x[i] = last.xPre[i]
    /\ \A i \in 10..12 : x[i] = Zero
    /\ \A k \in 1..3 : x[6 + k] = EulerSum(Len(calls), k)

C10_Witness ==
    /\ Returned("update")
    /\ last.z[1] # last.xPre[1]
    /\ x[7] # Zero
    /\ x[9] = Rat(9, 2)
    /\ x[1] # last.xPre[1]

====
